---- MODULE Spec2Model ----
(***************************************************************************)
(* Model of sentinel.py: the sentinel factory create(), the metaclass      *)
(* _SentinelMeta that intercepts calls of a sentinel type, the module-wide *)
(* registry _sinstances, and the hooks create() injects into the class     *)
(* dictionary (__repr__, __reduce__, __copy__, __deepcopy__).              *)
(***************************************************************************)
EXTENDS Integers, Sequences, FiniteSets, TLC

\* ------------------------------------------------------------------ bounds
\* Number of sentinel types (classes built at line 132) a behaviour may hold.
MaxTypes == 2
\* Number of allocated sentinel objects a behaviour may hold.
MaxInstances == 2

\* ------------------------------------------------------------------ inputs
\* Names passed to create().
Names == {"A", "B"}

\* Positional arguments forwarded to the composed constructor.
ArgLists == {<<>>, <<7>>}

\* Modules of the frames below create() on the call stack, innermost first.
CallerStacks == {<<"app">>, <<"app", "main">>}

\* ------------------------------------------------------------------ values
object == [kind |-> "object", id |-> 0]
int == [kind |-> "int", id |-> 0]
str == [kind |-> "str", id |-> 0]
\* Two classes of the caller's, used as capabilities:
\*   class A: m, a, __repr__, __str__        class B: m, b, __repr__
CapA == [kind |-> "A", id |-> 0]
CapB == [kind |-> "B", id |-> 0]
SentinelClass(t) == [kind |-> "sentinel", id |-> t]

None == [kind |-> "None", id |-> 0]
Instance(i) == [kind |-> "instance", id |-> i]
\* What a member supplied by the caller through cls_dict evaluates to.
CallerValue == [kind |-> "caller", id |-> 0]

\* The default capability list: just the universal root.
_DEFAULT_MRO == <<object>>

\* create() called without a name.
NoName == ""
\* The rendering of text, and of a member looked up on a sentinel.
Text(string) == [kind |-> "text", id |-> 0, value |-> string]
MemberValue(member) == [kind |-> "member", id |-> 0, member |-> member]
\* The arguments of a create() call, besides mro and args, that decide what
\* it does once the capability list is accepted: the name as given, whether
\* varname can be imported, and the keys of cls_dict.
CreateArgs(name, varname, cls_dict) ==
    [kind |-> "create", id |-> 0, name |-> name, varname |-> varname,
     keys |-> DOMAIN cls_dict]

Range(s) == {s[k] : k \in DOMAIN s}

\* Exceptions, named by the class Python raises (and, for the three TypeErrors,
\* by the place that raises them).
NoError == "none"
AssertionError == "AssertionError"
IndexError == "IndexError"
MetaclassConflict == "TypeError: metaclass conflict"
DuplicateBase == "TypeError: duplicate base class"
TakesNoArguments == "TypeError: takes no arguments"
AllocationError == "TypeError: This sentinel object can not be allocated more than once"
PicklingError == "PicklingError"
AttributeError == "AttributeError"
ImportError == "ImportError"

\* ------------------------------------------------------------------ state
VARIABLES
    types,        \* the classes built so far: types[t] = [name, bases, dict]
    _sinstances,  \* the registry: type id -> instance id
    instances,    \* every sentinel object allocated so far: [type, args]
    globals,      \* module namespaces: globals[module][name] = instance id, 0 if unbound
    created,      \* type id -> the instance create() returned for it
    last,         \* the last operation and what it returned or raised
    threads       \* program counter and locals of each thread (interleaved runs)

vars == <<types, _sinstances, instances, globals, created, last, threads>>

Modules == {"app", "main", "sentinel"}
Threads == {"t1", "t2"}

\* ------------------------------------------------------------------ class members
\* A member of a class dictionary, by what it evaluates to.
Member(impl, value) == [impl |-> impl, value |-> value]
\* A member the caller supplies through cls_dict: opaque caller code.
CallerMember == Member("caller", "")

\* Key sets of the cls_dict argument (None and {} are both the empty one).
ClsDictKeys ==
    { {}, {"__repr__", "__reduce__", "__copy__", "__deepcopy__"} }

ClsDict(keys) == [k \in keys |-> CallerMember]

\* The module of frame 1, create() itself, instead of its caller's.
_get_caller_module_own_frame(callers) ==
    LET stack == <<"sentinel", "sentinel">> \o callers
    IN stack[2]

\* Module of the caller of create(): frame 2 of the stack whose frames 0 and 1
\* are _get_caller_module and create themselves.
_get_caller_module(callers) ==
    LET stack == <<"sentinel", "sentinel">> \o callers
    IN stack[3]

\* A class dictionary without the identity hooks: a plain class, which the
\* copy and pickle modules rebuild through __new__.
InjectedDictPlain(name, callers, mro) ==
    LET keys == {"__module__", "__repr__"}
                \cup (IF mro = _DEFAULT_MRO THEN {"__slots__"} ELSE {})
    IN [k \in keys |->
            CASE k = "__module__" -> Member("str", _get_caller_module(callers))
              [] k = "__repr__" -> Member("const", name)
              [] OTHER -> Member("tuple", "")]

\* A fallback name used when varname cannot be imported.
InferNameFallback(installed, target) ==
    [err |-> NoError, name |-> IF installed THEN target ELSE "_Sentinel"]

\* Lines 70-79: from varname import varname; name = varname(). installed:
\* the import succeeds; target: the variable the caller assigns the result to.
InferName(installed, target) ==
    IF installed THEN [err |-> NoError, name |-> target]
    ELSE [err |-> ImportError, name |-> NoName]

\* The dictionary create() builds before merging cls_dict.
InjectedDict(name, callers, mro) ==
    LET keys == {"__module__", "__repr__", "__reduce__", "__copy__", "__deepcopy__"}
                \cup (IF mro = _DEFAULT_MRO THEN {"__slots__"} ELSE {})
    IN [k \in keys |->
            CASE k = "__module__" -> Member("str", _get_caller_module(callers))
              [] k = "__repr__" -> Member("const", name)
              [] k = "__reduce__" -> Member("const", name)
              [] k = "__copy__" -> Member("self", "")
              [] k = "__deepcopy__" -> Member("self", "")
              [] OTHER -> Member("tuple", "")]

\* dict.setdefault semantics: entries already present are kept.
UpdateKeepsFirst(d, e) == [k \in DOMAIN d \cup DOMAIN e |-> IF k \in DOMAIN d THEN d[k] ELSE e[k]]

\* dict.update: entries of the second dictionary replace those of the first.
Update(d, e) == [k \in DOMAIN d \cup DOMAIN e |-> IF k \in DOMAIN e THEN e[k] ELSE d[k]]

\* _cls_dict as passed to the metaclass.
_cls_dict(name, callers, mro, cls_dict) == Update(InjectedDict(name, callers, mro), cls_dict)

\* The replacement for __new__ installed after the first construction.
_sentinel_failing_new == Member("_sentinel_failing_new", "")

\* ------------------------------------------------------------------ composition
\* The metaclasses above the metaclass of capability c, as the sentinel types
\* they belong to: type(c) is `type` for a builtin, and for sentinel type s it
\* is the _SentinelMeta built for s, which extends type(types[s].bases[1]).
RECURSIVE MetaChain(_, _)
MetaChain(c, ts) ==
    IF c.kind # "sentinel" THEN {}
    ELSE {c.id} \cup (IF Len(ts[c.id].bases) = 0 THEN {}
                      ELSE MetaChain(ts[c.id].bases[1], ts))

\* The root-last assertion compiled away: the misplaced root is then rejected
\* by type.__new__, which cannot linearize the bases.
ComposeErrorNoAssert(mro, ts) ==
    IF mro = _DEFAULT_MRO THEN NoError
    ELSE IF Len(mro) = 0 THEN IndexError
    ELSE IF \E k \in DOMAIN mro :
                mro[k].kind = "sentinel" /\ mro[k].id \notin MetaChain(mro[1], ts)
         THEN MetaclassConflict
    ELSE IF \E j, k \in DOMAIN mro : j # k /\ mro[j] = mro[k] THEN DuplicateBase
    ELSE IF object \in Range(mro) /\ mro[Len(mro)] # object
         THEN "TypeError: cannot create a consistent MRO"
    ELSE NoError

\* The exception create() raises before the class exists, NoError if none:
\* the root-last assertion, the index into an empty mro, and the checks
\* of type.__new__ on the bases.
ComposeError(mro, ts) ==
    IF mro = _DEFAULT_MRO THEN NoError
    ELSE IF object \in Range(mro) /\ mro[Len(mro)] # object THEN AssertionError
    ELSE IF Len(mro) = 0 THEN IndexError
    ELSE IF \E k \in DOMAIN mro :
                mro[k].kind = "sentinel" /\ mro[k].id \notin MetaChain(mro[1], ts)
         THEN MetaclassConflict
    ELSE IF \E j, k \in DOMAIN mro : j # k /\ mro[j] = mro[k] THEN DuplicateBase
    ELSE NoError

\* The assertion placed after the class statement: the class exists when it fails.
ClassBuiltBeforeAssert(mro, ts) == ComposeError(mro, ts) \in {NoError, AssertionError}

\* Whether create() gets as far as building the class: the assertion and the
\* checks on the bases all come before the class exists.
ClassBuilt(mro, ts) == ComposeError(mro, ts) = NoError

\* The class _SentinelMeta("_Sentinel", mro, _cls_dict) returns, with the name
\* given to create() (the variable the injected lambdas close over).
_sentinel(name, callers, mro, cls_dict) ==
    [name |-> name, bases |-> mro, dict |-> _cls_dict(name, callers, mro, cls_dict)]

\* The class dictionary of a capability that is not a sentinel type.
CapabilityDict(c) ==
    CASE c.kind = "A" -> [k \in {"m", "a", "__repr__", "__str__"} |-> Member("A", k)]
      [] c.kind = "B" -> [k \in {"m", "b", "__repr__"} |-> Member("B", k)]
      [] c.kind = "str" -> [k \in {"__new__", "__str__"} |-> Member("builtin", "str")]
      [] OTHER -> [k \in {"__new__"} |-> Member("builtin", c.kind)]

\* Attribute lookup of member m on a class with dictionary d and bases bs:
\* the class's own entry, else the first base (left to right, depth first)
\* that has one; object, at the end of every resolution order, supplies __new__.
RECURSIVE FindMember(_, _, _, _), FirstBase(_, _, _, _)
\* The bases searched from the last to the first.
FirstBaseRightToLeft(m, bs, ts, k) ==
    IF k > Len(bs) THEN Member("absent", "")
    ELSE LET b == bs[Len(bs) + 1 - k]
             found == IF b.kind = "sentinel"
                      THEN FindMember(m, ts[b.id].dict, ts[b.id].bases, ts)
                      ELSE IF m \in DOMAIN CapabilityDict(b) THEN CapabilityDict(b)[m]
                      ELSE Member("absent", "")
         IN IF found.impl # "absent" THEN found ELSE FirstBase(m, bs, ts, k + 1)

FirstBase(m, bs, ts, k) ==
    IF k > Len(bs) THEN Member("absent", "")
    ELSE LET b == bs[k]
             found == IF b.kind = "sentinel"
                      THEN FindMember(m, ts[b.id].dict, ts[b.id].bases, ts)
                      ELSE IF m \in DOMAIN CapabilityDict(b) THEN CapabilityDict(b)[m]
                      ELSE Member("absent", "")
         IN IF found.impl # "absent" THEN found ELSE FirstBase(m, bs, ts, k + 1)

FindMember(m, d, bs, ts) ==
    IF m \in DOMAIN d THEN d[m] ELSE FirstBase(m, bs, ts, 1)

\* The attribute m of sentinel type t.
GetAttr(t, m, ts) ==
    LET found == FindMember(m, ts[t].dict, ts[t].bases, ts)
    IN IF found.impl = "absent" /\ m = "__new__" THEN Member("builtin", "object")
       ELSE found

\* Allocation of an instance of t through its __new__ (tp_new), with args:
\* the exception it raises, NoError if it allocates.
NewError(t, args, ts) ==
    LET new == GetAttr(t, "__new__", ts)
    IN CASE new = _sentinel_failing_new -> AllocationError
         [] new.impl = "builtin" /\ new.value = "object" /\ Len(args) > 0 -> TakesNoArguments
         [] OTHER -> NoError

\* ------------------------------------------------------------------ _SentinelMeta
\* What an operation returned or raised. t: the sentinel type it was about (0:
\* none was built); mro, args: the capability list and constructor arguments
\* it was given; ctor: the composed constructor (super().__call__) was
\* invoked; arg: the object a copy or pickle was given.
Result(op, t, mro, args, err, val, ctor, arg) ==
    [op |-> op, t |-> t, mro |-> mro, args |-> args, err |-> err, val |-> val,
     ctor |-> ctor, arg |-> arg]

\* A lookup that never finds the cached instance.
RegisteredNever(t, reg) == FALSE

\* try: return _sinstances[self]  -- does the lookup succeed?
Registered(t, reg) == t \in DOMAIN reg

\* A registry keyed by the class name, which is "_Sentinel" for every sentinel
\* type: one slot shared by all of them.
StoreByClassName(reg, t, i) == [u \in DOMAIN reg \cup {t} |-> i]

\* _sinstances = {self: instance}: a rebinding instead of an item assignment.
StoreRebinds(reg, t, i) == (t :> i)

\* _sinstances[self] = instance
Store(reg, t, i) == (t :> i) @@ reg

\* A getter that raises for a type with no entry (_sinstances.__getitem__).
instance_getitem(t, reg) ==
    [err |-> IF t \in DOMAIN reg THEN NoError ELSE "KeyError",
     val |-> IF t \in DOMAIN reg THEN Instance(reg[t]) ELSE None,
     reg |-> reg]

\* _SentinelMeta.instance: the property whose getter is _sinstances.get; the
\* exception or value, and the registry it leaves.
instance(t, reg) ==
    [err |-> NoError, val |-> IF t \in DOMAIN reg THEN Instance(reg[t]) ELSE None,
     reg |-> reg]

\* A __call__ that stores in a finally clause: a failed construction leaves
\* an entry, for no instance, behind.
__call___store_in_finally(t, args, ts, reg, insts) ==
    IF Registered(t, reg)
    THEN [err |-> NoError, val |-> Instance(reg[t]), ctor |-> FALSE,
          reg |-> reg, insts |-> insts]
    ELSE LET err == NewError(t, args, ts)
             i == Len(insts) + 1
         IN IF err # NoError
            THEN [err |-> err, val |-> None, ctor |-> TRUE, reg |-> Store(reg, t, 0),
                  insts |-> insts]
            ELSE [err |-> NoError, val |-> Instance(i), ctor |-> TRUE,
                  reg |-> Store(reg, t, i),
                  insts |-> Append(insts, [type |-> t, args |-> args])]

\* _SentinelMeta.__call__(self, *args) on registry reg and heap insts: the
\* exception or value, and the registry and heap it leaves. For a type whose
\* first base is a sentinel type, super().__call__ is the base's
\* _SentinelMeta.__call__, which repeats the same lookup and store for self.
__call__(t, args, ts, reg, insts) ==
    IF Registered(t, reg)
    THEN [err |-> NoError, val |-> Instance(reg[t]), ctor |-> FALSE,
          reg |-> reg, insts |-> insts]
    ELSE LET err == NewError(t, args, ts)
             i == Len(insts) + 1
         IN IF err # NoError
            THEN [err |-> err, val |-> None, ctor |-> TRUE, reg |-> reg, insts |-> insts]
            ELSE [err |-> NoError, val |-> Instance(i), ctor |-> TRUE,
                  reg |-> Store(reg, t, i),
                  insts |-> Append(insts, [type |-> t, args |-> args])]

\* create() without its last assignment: __new__ stays what it was.
DisableNewSkipped(ts, t) == ts

\* _sentinel.__new__ = _sentinel_failing_new
DisableNew(ts, t) ==
    [ts EXCEPT ![t].dict = Update(@, [k \in {"__new__"} |-> _sentinel_failing_new])]

\* Capability lists passed to create().
MROs(ts) ==
    { << >>, <<object>>, <<int, object>>, <<object, int>>, <<object, object>> }
    \cup { <<SentinelClass(t), object>> : t \in DOMAIN ts }
    \cup { <<int, SentinelClass(t)>> : t \in DOMAIN ts }

\* ------------------------------------------------------------------ hooks
\* The sentinel type of instance i.
TypeOf(i, insts) == insts[i].type

\* repr(S): the class's __repr__.
repr(i, ts, insts) ==
    LET h == GetAttr(TypeOf(i, insts), "__repr__", ts)
    IN IF h.impl = "const" THEN h.value ELSE "<caller>"

\* str(S): the first __str__ along the bases; object's, at the end, calls repr.
__str__(i, ts, insts) ==
    LET h == GetAttr(TypeOf(i, insts), "__str__", ts)
    IN IF h.impl = "absent" THEN repr(i, ts, insts)
       ELSE IF h.impl = "caller" THEN "<caller>"
       ELSE "<" \o h.impl \o "." \o h.value \o ">"

\* A container object: a list, a tuple or a dict (items: key, value, ...),
\* with the identity of the object.
Container(kind, oid, items) == [kind |-> kind, id |-> oid, items |-> items]
IsContainer(x) == x.kind \in {"list", "tuple", "dict"}

\* The data structures a sentinel S is embedded in.
Structures(S) ==
    { Container("tuple", 1, <<S, Container("tuple", 2, <<S>>)>>),
      Container("dict", 1, <<S, Container("tuple", 2, <<S, Container("list", 3, <<S>>)>>)>>) }

\* The first object identity not used by a structure above.
FreshId(x) == IF IsContainer(x) THEN 4 ELSE 1

\* An outcome of a hook: the exception or value, and the heap it leaves.
Outcome(err, val, insts) == [err |-> err, val |-> val, insts |-> insts]

\* copyreg.__newobj__(cls): what copy and pickle fall back to for an object
\* whose class has no hook of its own; it allocates through cls.__new__.
Reconstruct(t, ts, insts) ==
    LET err == NewError(t, << >>, ts)
    IN IF err # NoError THEN Outcome(err, None, insts)
       ELSE Outcome(NoError, Instance(Len(insts) + 1),
                    Append(insts, [type |-> t, args |-> << >>]))

\* The copy module on a sentinel: the class's hook (__copy__ or
\* __deepcopy__) when it has one, else __reduce_ex__, whose string result
\* means "return the object itself".
CopyInstance(hook, i, ts, insts) ==
    LET t == TypeOf(i, insts)
        h == GetAttr(t, hook, ts)
        r == GetAttr(t, "__reduce__", ts)
    IN CASE h.impl = "self" -> Outcome(NoError, Instance(i), insts)
         [] h.impl = "caller" -> Outcome(NoError, CallerValue, insts)
         [] r.impl = "const" -> Outcome(NoError, Instance(i), insts)
         [] r.impl = "caller" -> Outcome(NoError, CallerValue, insts)
         [] OTHER -> Reconstruct(t, ts, insts)

\* copy.copy(S)
copy(i, ts, insts) == CopyInstance("__copy__", i, ts, insts)

\* copy.deepcopy(x): lists and dicts are rebuilt as new objects; a tuple is
\* rebuilt only when the copy of some element is not that element; a sentinel
\* goes through its hook. next: the next free object identity.
RECURSIVE deepcopy(_, _, _, _), DeepCopyItems(_, _, _, _, _)
DeepCopyItems(items, k, next, ts, insts) ==
    IF k > Len(items) THEN [err |-> NoError, vals |-> << >>, next |-> next, insts |-> insts]
    ELSE LET h == deepcopy(items[k], next, ts, insts)
             r == DeepCopyItems(items, k + 1, h.next, ts, h.insts)
         IN IF h.err # NoError
            THEN [err |-> h.err, vals |-> << >>, next |-> h.next, insts |-> h.insts]
            ELSE [err |-> r.err, vals |-> <<h.val>> \o r.vals, next |-> r.next,
                  insts |-> r.insts]

deepcopy(x, next, ts, insts) ==
    CASE x.kind = "instance" ->
            LET o == CopyInstance("__deepcopy__", x.id, ts, insts)
            IN [err |-> o.err, val |-> o.val, next |-> next, insts |-> o.insts]
      [] x.kind \in {"list", "dict"} ->
            LET r == DeepCopyItems(x.items, 1, next + 1, ts, insts)
            IN [err |-> r.err, val |-> Container(x.kind, next, r.vals), next |-> r.next,
                insts |-> r.insts]
      [] x.kind = "tuple" ->
            LET r == DeepCopyItems(x.items, 1, next, ts, insts)
            IN IF r.err = NoError /\ r.vals = x.items
               THEN [err |-> NoError, val |-> x, next |-> r.next, insts |-> r.insts]
               ELSE [err |-> r.err, val |-> Container("tuple", r.next, r.vals),
                     next |-> r.next + 1, insts |-> r.insts]
      [] OTHER -> [err |-> NoError, val |-> x, next |-> next, insts |-> insts]

\* pickle.dumps(x). A sentinel whose __reduce__ returns a string is saved as
\* the global (module, name), after checking that the name resolves in the
\* module to this very object; the module is the object's __module__.
Global(module, name) == [kind |-> "global", module |-> module, name |-> name]

RECURSIVE dumps(_, _, _, _), DumpItems(_, _, _, _, _)
DumpItems(items, k, ts, insts, g) ==
    IF k > Len(items) THEN [err |-> NoError, data |-> << >>]
    ELSE LET h == dumps(items[k], ts, insts, g)
             r == DumpItems(items, k + 1, ts, insts, g)
         IN IF h.err # NoError THEN [err |-> h.err, data |-> << >>]
            ELSE [err |-> r.err, data |-> <<h.data>> \o r.data]

dumps(x, ts, insts, g) ==
    CASE x.kind = "instance" ->
            LET t == TypeOf(x.id, insts)
                r == GetAttr(t, "__reduce__", ts)
                m == GetAttr(t, "__module__", ts).value
            IN CASE r.impl = "const" ->
                      IF m \in DOMAIN g /\ r.value \in DOMAIN g[m] /\ g[m][r.value] = x.id
                      THEN [err |-> NoError, data |-> Global(m, r.value)]
                      ELSE [err |-> PicklingError, data |-> None]
                 [] r.impl = "caller" -> [err |-> NoError, data |-> CallerValue]
                 [] OTHER -> [err |-> NoError, data |-> [kind |-> "newobj", id |-> t]]
      [] IsContainer(x) ->
            LET r == DumpItems(x.items, 1, ts, insts, g)
            IN [err |-> r.err, data |-> [kind |-> x.kind, items |-> r.data]]
      [] OTHER -> [err |-> NoError, data |-> x]

\* pickle.loads(data): a global is resolved as an attribute of its module;
\* containers are new objects.
RECURSIVE loads(_, _, _, _, _), LoadItems(_, _, _, _, _, _)
LoadItems(items, k, next, ts, insts, g) ==
    IF k > Len(items) THEN [err |-> NoError, vals |-> << >>, next |-> next, insts |-> insts]
    ELSE LET h == loads(items[k], next, ts, insts, g)
             r == LoadItems(items, k + 1, h.next, ts, h.insts, g)
         IN IF h.err # NoError
            THEN [err |-> h.err, vals |-> << >>, next |-> h.next, insts |-> h.insts]
            ELSE [err |-> r.err, vals |-> <<h.val>> \o r.vals, next |-> r.next,
                  insts |-> r.insts]

loads(data, next, ts, insts, g) ==
    CASE data.kind = "global" ->
            IF g[data.module][data.name] = 0
            THEN [err |-> AttributeError, val |-> None, next |-> next, insts |-> insts]
            ELSE [err |-> NoError, val |-> Instance(g[data.module][data.name]),
                  next |-> next, insts |-> insts]
      [] data.kind = "newobj" ->
            LET o == Reconstruct(data.id, ts, insts)
            IN [err |-> o.err, val |-> o.val, next |-> next, insts |-> o.insts]
      [] data.kind \in {"list", "tuple", "dict"} ->
            LET r == LoadItems(data.items, 1, next + 1, ts, insts, g)
            IN [err |-> r.err, val |-> Container(data.kind, next, r.vals), next |-> r.next,
                insts |-> r.insts]
      [] OTHER -> [err |-> NoError, val |-> data, next |-> next, insts |-> insts]

\* ------------------------------------------------------------------ operations
\* A thread outside create() and outside every call.
Idle == [pc |-> "idle", t |-> 0, args |-> << >>, inst |-> 0, caller |-> "", ctor |-> FALSE]

Init ==
    /\ types = << >>
    /\ _sinstances = << >>
    /\ instances = << >>
    /\ globals = [m \in Modules |-> [n \in Names |-> 0]]
    /\ created = << >>
    /\ last = Result("init", 0, << >>, << >>, NoError, None, FALSE, None)
    /\ threads = [th \in Threads |-> Idle]

\* instance = sentinel.create(name, mro, cls_dict, *args), called with the
\* frames `callers` below it.
Create(name, mro, cls_dict, args, callers) ==
    /\ Len(types) < MaxTypes
    /\ \E installed \in (IF name = NoName THEN BOOLEAN ELSE {FALSE}),
          target \in (IF name = NoName THEN Names ELSE {name}) :
         LET n == IF name = NoName THEN InferName(installed, target)
                  ELSE [err |-> NoError, name |-> name]
             given == CreateArgs(name, installed, cls_dict)
             err == ComposeError(mro, types)
             t == Len(types) + 1
             ts1 == Append(types, _sentinel(n.name, callers, mro, cls_dict))
             out == __call__(t, args, ts1, _sinstances, instances)
         IN IF n.err # NoError
            THEN /\ last' = Result("create", 0, mro, args, n.err, None, FALSE, given)
                 /\ UNCHANGED <<types, _sinstances, instances, created>>
            ELSE IF err # NoError
            THEN /\ types' = IF ClassBuilt(mro, types) THEN ts1 ELSE types
                 /\ last' = Result("create", 0, mro, args, err, None, FALSE, None)
                 /\ UNCHANGED <<_sinstances, instances, created>>
            ELSE /\ Len(out.insts) <= MaxInstances
                 /\ types' = IF out.err = NoError THEN DisableNew(ts1, t) ELSE ts1
                 /\ _sinstances' = out.reg
                 /\ instances' = out.insts
                 /\ created' = IF out.err = NoError THEN (t :> out.val.id) @@ created
                               ELSE created
                 /\ last' = Result("create", t, mro, args, out.err, out.val, out.ctor, given)
    /\ UNCHANGED <<globals, threads>>

\* T(*args) for a sentinel type T; the caller has T as type(S) of a sentinel S.
Call(t, args) ==
    /\ t \in DOMAIN types
    /\ LET out == __call__(t, args, types, _sinstances, instances)
       IN /\ Len(out.insts) <= MaxInstances
          /\ _sinstances' = out.reg
          /\ instances' = out.insts
          /\ last' = Result("call", t, << >>, args, out.err, out.val, out.ctor, None)
    /\ UNCHANGED <<types, globals, created, threads>>

\* T.__new__(T, *args): the raw allocation path, bypassing the metaclass.
RawNew(t, args) ==
    /\ t \in DOMAIN types
    /\ LET err == NewError(t, args, types)
           i == Len(instances) + 1
       IN IF err # NoError
          THEN /\ last' = Result("new", t, << >>, args, err, None, FALSE, None)
               /\ UNCHANGED instances
          ELSE /\ i <= MaxInstances
               /\ instances' = Append(instances, [type |-> t, args |-> args])
               /\ last' = Result("new", t, << >>, args, NoError, Instance(i), FALSE, None)
    /\ UNCHANGED <<types, _sinstances, globals, created, threads>>

\* T.instance
Lookup(t) ==
    /\ t \in DOMAIN types
    /\ LET o == instance(t, _sinstances)
       IN /\ _sinstances' = o.reg
          /\ last' = Result("instance", t, << >>, << >>, o.err, o.val, FALSE, None)
    /\ UNCHANGED <<types, instances, globals, created, threads>>

\* repr(S)
Repr(i) ==
    /\ i \in DOMAIN instances
    /\ last' = Result("repr", TypeOf(i, instances), << >>, << >>, NoError,
                      Text(repr(i, types, instances)), FALSE, Instance(i))
    /\ UNCHANGED <<types, _sinstances, instances, globals, created, threads>>

\* str(S)
Str(i) ==
    /\ i \in DOMAIN instances
    /\ last' = Result("str", TypeOf(i, instances), << >>, << >>, NoError,
                      Text(__str__(i, types, instances)), FALSE, Instance(i))
    /\ UNCHANGED <<types, _sinstances, instances, globals, created, threads>>

\* type(S).m: the member m of the sentinel's class, as the instance uses it.
GetMember(i, m) ==
    /\ i \in DOMAIN instances
    /\ last' = Result("getattr", TypeOf(i, instances), << >>, <<m>>, NoError,
                      MemberValue(GetAttr(TypeOf(i, instances), m, types)), FALSE,
                      Instance(i))
    /\ UNCHANGED <<types, _sinstances, instances, globals, created, threads>>

\* copy.copy(S)
ShallowCopy(i) ==
    /\ i \in DOMAIN instances
    /\ LET o == copy(i, types, instances)
       IN /\ Len(o.insts) <= MaxInstances
          /\ instances' = o.insts
          /\ last' = Result("copy", TypeOf(i, instances), << >>, << >>, o.err, o.val,
                            FALSE, Instance(i))
    /\ UNCHANGED <<types, _sinstances, globals, created, threads>>

\* copy.deepcopy(x), x a sentinel or a structure holding one.
DeepCopy(i, x) ==
    /\ i \in DOMAIN instances
    /\ x \in {Instance(i)} \cup Structures(Instance(i))
    /\ LET o == deepcopy(x, FreshId(x), types, instances)
       IN /\ Len(o.insts) <= MaxInstances
          /\ instances' = o.insts
          /\ last' = Result("deepcopy", TypeOf(i, instances), << >>, << >>, o.err,
                            IF o.err = NoError THEN o.val ELSE None, FALSE, x)
    /\ UNCHANGED <<types, _sinstances, globals, created, threads>>

\* The caller's module-level assignment  name = S  in module m, for the
\* sentinel S it created under that name.
Bind(m, name, i) ==
    /\ i \in DOMAIN instances
    /\ types[TypeOf(i, instances)].name = name
    /\ globals[m][name] # i
    /\ globals' = [globals EXCEPT ![m][name] = i]
    /\ last' = Result("bind", TypeOf(i, instances), << >>, << >>, NoError, None, FALSE,
                      Instance(i))
    /\ UNCHANGED <<types, _sinstances, instances, created, threads>>

\* data = pickle.dumps(x), x a sentinel or a structure holding one.
Serialize(i, x) ==
    /\ i \in DOMAIN instances
    /\ x \in {Instance(i)} \cup Structures(Instance(i))
    /\ LET o == dumps(x, types, instances, globals)
       IN last' = Result("dumps", TypeOf(i, instances), << >>, << >>, o.err,
                         IF o.err = NoError THEN o.data ELSE None, FALSE, x)
    /\ UNCHANGED <<types, _sinstances, instances, globals, created, threads>>

\* pickle.loads(data) of the data just written.
Deserialize ==
    /\ last.op = "dumps"
    /\ last.err = NoError
    /\ LET o == loads(last.val, FreshId(last.arg), types, instances, globals)
       IN /\ Len(o.insts) <= MaxInstances
          /\ instances' = o.insts
          /\ last' = Result("loads", last.t, << >>, << >>, o.err,
                            IF o.err = NoError THEN o.val ELSE None, FALSE, last.arg)
    /\ UNCHANGED <<types, _sinstances, globals, created, threads>>

\* ---- create() and T(*args) run by threads, one source line per step ----
\* No statement of __call__ or of create() takes a lock, so another thread
\* may run between any two of the lines below. A class is reachable by other
\* threads from line 132 on (object.__subclasses__(), a capability's
\* __init_subclass__), before create() has stored or returned anything.

\* Lines 81-132: thread th composes the class; line 134 then enters __call__.
ThreadCompose(th, name, mro, cls_dict, args, callers) ==
    /\ threads[th].pc = "idle"
    /\ Len(types) < MaxTypes
    /\ IF ClassBuilt(mro, types)
       THEN /\ types' = Append(types, _sentinel(name, callers, mro, cls_dict))
            /\ threads' = [threads EXCEPT ![th] =
                              [pc |-> "L122", t |-> Len(types) + 1, args |-> args,
                               inst |-> 0, caller |-> "create", ctor |-> FALSE]]
            /\ UNCHANGED last
       ELSE /\ last' = Result("create", 0, mro, args, ComposeError(mro, types),
                              None, FALSE, None)
            /\ UNCHANGED <<types, threads>>
    /\ UNCHANGED <<_sinstances, instances, globals, created>>

\* Thread th calls T(*args) on a class that exists.
ThreadCall(th, t, args) ==
    /\ threads[th].pc = "idle"
    /\ t \in DOMAIN types
    /\ threads' = [threads EXCEPT ![th] =
                      [pc |-> "L122", t |-> t, args |-> args,
                       inst |-> 0, caller |-> "app", ctor |-> FALSE]]
    /\ UNCHANGED <<types, _sinstances, instances, globals, created, last>>

\* Lines 121-123: instance = _sinstances[self], or KeyError.
ThreadLookup(th) ==
    /\ threads[th].pc = "L122"
    /\ threads' = [threads EXCEPT ![th] =
                      IF Registered(threads[th].t, _sinstances)
                      THEN [@ EXCEPT !.pc = "L128", !.inst = _sinstances[threads[th].t]]
                      ELSE [@ EXCEPT !.pc = "L125"]]
    /\ UNCHANGED <<types, _sinstances, instances, globals, created, last>>

\* Line 125 without the arguments: super().__call__().
ThreadConstructNoArgs(th) ==
    /\ threads[th].pc = "L125"
    /\ LET me == threads[th]
           err == NewError(me.t, << >>, types)
       IN IF err # NoError
          THEN /\ last' = Result(IF me.caller = "create" THEN "create" ELSE "call",
                                 me.t, types[me.t].bases, me.args, err, None, TRUE, None)
               /\ threads' = [threads EXCEPT ![th] = Idle]
               /\ UNCHANGED instances
          ELSE /\ Len(instances) < MaxInstances
               /\ instances' = Append(instances, [type |-> me.t, args |-> << >>])
               /\ threads' = [threads EXCEPT ![th] =
                                 [@ EXCEPT !.pc = "L126", !.inst = Len(instances) + 1,
                                           !.ctor = TRUE]]
               /\ UNCHANGED last
    /\ UNCHANGED <<types, _sinstances, globals, created>>

\* Line 125: instance = super().__call__(*args, **kwargs).
ThreadConstruct(th) ==
    /\ threads[th].pc = "L125"
    /\ LET me == threads[th]
           err == NewError(me.t, me.args, types)
       IN IF err # NoError
          THEN /\ last' = Result(IF me.caller = "create" THEN "create" ELSE "call",
                                 me.t, types[me.t].bases, me.args, err, None, TRUE, None)
               /\ threads' = [threads EXCEPT ![th] = Idle]
               /\ UNCHANGED instances
          ELSE /\ Len(instances) < MaxInstances
               /\ instances' = Append(instances, [type |-> me.t, args |-> me.args])
               /\ threads' = [threads EXCEPT ![th] =
                                 [@ EXCEPT !.pc = "L126", !.inst = Len(instances) + 1,
                                           !.ctor = TRUE]]
               /\ UNCHANGED last
    /\ UNCHANGED <<types, _sinstances, globals, created>>

\* Line 126: _sinstances[self] = instance.
ThreadStore(th) ==
    /\ threads[th].pc = "L126"
    /\ _sinstances' = Store(_sinstances, threads[th].t, threads[th].inst)
    /\ threads' = [threads EXCEPT ![th] = [@ EXCEPT !.pc = "L128"]]
    /\ UNCHANGED <<types, instances, globals, created, last>>

\* Line 122 (entry found) or line 128 (entry stored): return the instance, to
\* the application or to line 134 of create().
ThreadReturn(th) ==
    /\ threads[th].pc = "L128"
    /\ LET me == threads[th]
       IN IF me.caller = "create"
          THEN /\ threads' = [threads EXCEPT ![th] = [@ EXCEPT !.pc = "L135"]]
               /\ UNCHANGED last
          ELSE /\ last' = Result("call", me.t, types[me.t].bases, me.args, NoError,
                                 Instance(me.inst), me.ctor, None)
               /\ threads' = [threads EXCEPT ![th] = Idle]
    /\ UNCHANGED <<types, _sinstances, instances, globals, created>>

\* Lines 135-137: disable __new__ and return the instance from create().
ThreadDisable(th) ==
    /\ threads[th].pc = "L135"
    /\ LET me == threads[th]
       IN /\ types' = DisableNew(types, me.t)
          /\ created' = (me.t :> me.inst) @@ created
          /\ last' = Result("create", me.t, types[me.t].bases, me.args, NoError,
                            Instance(me.inst), me.ctor, None)
    /\ threads' = [threads EXCEPT ![th] = Idle]
    /\ UNCHANGED <<_sinstances, instances, globals>>

\* Modules whose code calls create() and binds the result.
CallerModules == {callers[1] : callers \in CallerStacks}

\* ------------------------------------------------------------------ specifications
CreateAny ==
    \E name \in Names, mro \in MROs(types), keys \in ClsDictKeys,
       args \in ArgLists, callers \in CallerStacks :
        Create(name, mro, ClsDict(keys), args, callers)

\* Construction: create(), calls of a type, its raw allocation, its lookup.
NextConstruct ==
    \/ CreateAny
    \/ \E i \in DOMAIN instances, args \in ArgLists : Call(TypeOf(i, instances), args)
    \/ \E i \in DOMAIN instances, args \in ArgLists : RawNew(TypeOf(i, instances), args)
    \/ \E t \in DOMAIN types : Lookup(t)

\* Copying: create() and the copy module.
NextCopy ==
    \/ CreateAny
    \/ \E i \in DOMAIN instances : ShallowCopy(i)
    \/ \E i \in DOMAIN instances :
          \E x \in {Instance(i)} \cup Structures(Instance(i)) : DeepCopy(i, x)

\* Pickling: create(), the caller's bindings, and the pickle module.
NextPickle ==
    \/ CreateAny
    \/ \E m \in CallerModules, name \in Names, i \in DOMAIN instances : Bind(m, name, i)
    \/ \E i \in DOMAIN instances :
          \E x \in {Instance(i)} \cup Structures(Instance(i)) : Serialize(i, x)
    \/ Deserialize

\* Every operation, one at a time.
Next ==
    \/ CreateAny
    \/ \E i \in DOMAIN instances, args \in ArgLists : Call(TypeOf(i, instances), args)
    \/ \E i \in DOMAIN instances, args \in ArgLists : RawNew(TypeOf(i, instances), args)
    \/ \E t \in DOMAIN types : Lookup(t)
    \/ \E i \in DOMAIN instances : ShallowCopy(i)
    \/ \E i \in DOMAIN instances :
          \E x \in {Instance(i)} \cup Structures(Instance(i)) : DeepCopy(i, x)
    \/ \E m \in CallerModules, name \in Names, i \in DOMAIN instances : Bind(m, name, i)
    \/ \E i \in DOMAIN instances :
          \E x \in {Instance(i)} \cup Structures(Instance(i)) : Serialize(i, x)
    \/ Deserialize

\* Capability lists whose classes define members, and cls_dict key sets that
\* replace some of the injected members, __new__ and the member m.
MemberMROs == {_DEFAULT_MRO, <<CapA, CapB>>, <<CapB, CapA, object>>}
MemberClsDictKeys ==
    { {}, {"__repr__", "__copy__", "__new__"}, {"__reduce__", "__deepcopy__", "m"} }
MemberNames == {"m", "a", "b", "__repr__"}

\* Members: create(), calls and raw allocations of the types, and attribute
\* lookup on the sentinels.
NextMembers ==
    \/ \E mro \in MemberMROs, keys \in MemberClsDictKeys, args \in ArgLists :
            Create("A", mro, ClsDict(keys), args, <<"app">>)
    \/ \E i \in DOMAIN instances, args \in ArgLists : Call(TypeOf(i, instances), args)
    \/ \E i \in DOMAIN instances, args \in ArgLists : RawNew(TypeOf(i, instances), args)
    \/ \E i \in DOMAIN instances, m \in MemberNames : GetMember(i, m)

\* Capability lists with and without a __str__ of their own, and cls_dict key
\* sets with and without a display member.
DisplayMROs == {_DEFAULT_MRO, <<str>>, <<CapA, CapB>>}
DisplayClsDictKeys == { {}, {"__repr__"}, {"__str__"} }

\* Display: create() with or without a name, and the rendering of sentinels.
NextDisplay ==
    \/ \E name \in Names \cup {NoName}, mro \in DisplayMROs, keys \in DisplayClsDictKeys,
          args \in ArgLists :
            Create(name, mro, ClsDict(keys), args, <<"app">>)
    \/ \E i \in DOMAIN instances : Repr(i)
    \/ \E i \in DOMAIN instances : Str(i)

\* The threads pass create() the capability lists that matter to the race:
\* the default, one with a constructor that takes the argument, one refused.
ThreadMROs == {_DEFAULT_MRO, <<int, object>>, <<object, int>>}

\* Concurrent runs: create() and calls of a type, interleaved line by line.
NextThreads ==
    \E th \in Threads :
        \/ \E name \in Names, mro \in ThreadMROs, args \in ArgLists :
                ThreadCompose(th, name, mro, ClsDict({}), args, <<"app">>)
        \/ \E t \in DOMAIN types, args \in ArgLists : ThreadCall(th, t, args)
        \/ ThreadLookup(th)
        \/ ThreadConstruct(th)
        \/ ThreadStore(th)
        \/ ThreadReturn(th)
        \/ ThreadDisable(th)

\* Concurrent runs in which a thread calls only the types create() has
\* returned: the caller obtains a sentinel type as type(S) of a sentinel S.
NextApi ==
    \E th \in Threads :
        \/ \E name \in Names, mro \in ThreadMROs, args \in ArgLists :
                ThreadCompose(th, name, mro, ClsDict({}), args, <<"app">>)
        \/ \E t \in DOMAIN created, args \in ArgLists : ThreadCall(th, t, args)
        \/ ThreadLookup(th)
        \/ ThreadConstruct(th)
        \/ ThreadStore(th)
        \/ ThreadReturn(th)
        \/ ThreadDisable(th)

Spec == Init /\ [][Next]_vars
SpecApi == Init /\ [][NextApi]_vars
SpecMembers == Init /\ [][NextMembers]_vars
SpecDisplay == Init /\ [][NextDisplay]_vars
SpecThreads == Init /\ [][NextThreads]_vars
SpecConstruct == Init /\ [][NextConstruct]_vars
SpecCopy == Init /\ [][NextCopy]_vars
SpecPickle == Init /\ [][NextPickle]_vars

\* ------------------------------------------------------------------ properties
InstancesOf(t) == {i \in DOMAIN instances : instances[i].type = t}

\* The sentinels a value holds, at any depth.
RECURSIVE Leaves(_)
Leaves(x) ==
    IF x.kind = "instance" THEN {x.id}
    ELSE IF IsContainer(x) THEN UNION {Leaves(x.items[k]) : k \in DOMAIN x.items}
    ELSE {}

\* C1: singleton invariant. For every sentinel type T whose create() call
\* returned, in every state reached by create, calls, raw allocation, lookup,
\* copy, deep copy, binding, pickling and unpickling, exactly one instance of T
\* exists, the one create() returned, and every operation on T that returns a
\* sentinel of T (alone or inside a structure) returns that very instance.
C1_SingletonInvariant ==
    /\ \A t \in DOMAIN created : InstancesOf(t) = {created[t]}
    /\ last.err = NoError =>
          \A i \in Leaves(last.val) :
              TypeOf(i, instances) \in DOMAIN created => i = created[TypeOf(i, instances)]
    /\ (last.op \in {"create", "call", "instance"} /\ last.err = NoError
            /\ last.t \in DOMAIN created)
          => last.val = Instance(created[last.t])

\* C1 witness: two sentinels exist and a structure holding one of them came
\* back from a pickle round trip.
C1_Witness ==
    /\ Cardinality(DOMAIN created) = 2
    /\ last.op = "loads"
    /\ last.err = NoError
    /\ last.arg.kind = "dict"
    /\ Leaves(last.val) = {created[last.t]}

\* C2: the construction path is a critical section. Under every interleaving
\* of threads calling the same type, at most one instance of the type is
\* constructed, no thread stores a registry entry for a type that already has
\* one, and the threads about to return from calls of the same type hold the
\* same instance.
C2_CriticalSection ==
    /\ \A t \in DOMAIN types : Cardinality(InstancesOf(t)) <= 1
    /\ \A th \in Threads :
          threads[th].pc = "L126" => threads[th].t \notin DOMAIN _sinstances
    /\ \A a, b \in Threads :
          ( /\ threads[a].pc \in {"L128", "L135"}
            /\ threads[b].pc \in {"L128", "L135"}
            /\ threads[a].t = threads[b].t )
            => threads[a].inst = threads[b].inst

\* C3: construction idempotence. A call T(*args) made while the registry
\* holds an instance for T returns that instance whatever args is, does not
\* invoke the composed constructor, and leaves the registry, the instances
\* and the types as they were.
C3_ConstructionIdempotence ==
    [][(last'.op = "call" /\ last'.t \in DOMAIN _sinstances)
         => /\ last'.err = NoError
            /\ last'.val = Instance(_sinstances[last'.t])
            /\ ~last'.ctor
            /\ _sinstances' = _sinstances
            /\ instances' = instances
            /\ types' = types]_vars

\* C3 witness: a type was called with arguments other than those of its first
\* construction and the cached instance came back without a constructor run.
C3_Witness ==
    /\ last.op = "call"
    /\ last.err = NoError
    /\ ~last.ctor
    /\ last.val.kind = "instance"
    /\ instances[last.val.id].args # last.args

\* C4: bypass guard. After create() has returned T's instance, T.__new__(T,
\* *args) raises the allocation TypeError for every args, allocates nothing and
\* leaves the registry unchanged.
C4_BypassGuard ==
    [][(last'.op = "new" /\ last'.t \in DOMAIN created)
         => /\ last'.err = AllocationError
            /\ instances' = instances
            /\ _sinstances' = _sinstances]_vars

\* C4 witness: the raw allocation of a created sentinel type was invoked with
\* an argument and raised.
C4_Witness ==
    /\ last.op = "new"
    /\ last.t \in DOMAIN created
    /\ last.args # << >>
    /\ last.err = AllocationError

\* C5: the allocation TypeError is raised only on bypass: by no create() call
\* and by no call of a type, only by a direct T.__new__.
C5_AllocationErrorOnlyOnBypass ==
    last.err = AllocationError => last.op = "new"

C7_FailedCreateChangesNothing ==
    [][(last'.op = "create" /\ last'.err = AssertionError)
         => /\ last'.t = 0
            /\ types' = types
            /\ _sinstances' = _sinstances
            /\ instances' = instances
            /\ globals' = globals
            /\ created' = created]_vars

\* C7 witness: create() raised AssertionError while an earlier sentinel exists.
C7_Witness ==
    /\ last.op = "create"
    /\ last.err = AssertionError
    /\ DOMAIN created # {}

\* C10: lookup. T.instance returns the registry's entry for T, which for a
\* type create() returned is the instance create() returned, and None when
\* the registry has no entry; it raises nothing and changes nothing.
C10_Lookup ==
    [][(last'.op = "instance")
         => /\ last'.err = NoError
            /\ last'.val = IF last'.t \in DOMAIN _sinstances
                           THEN Instance(_sinstances[last'.t]) ELSE None
            /\ last'.t \in DOMAIN created => last'.val = Instance(created[last'.t])
            /\ _sinstances' = _sinstances
            /\ instances' = instances
            /\ types' = types]_vars

\* C10 witness: with two types, one of them never constructed, the lookup of
\* the constructed one returned its instance.
C10_Witness ==
    /\ Len(types) = 2
    /\ DOMAIN _sinstances # DOMAIN types
    /\ last.op = "instance"
    /\ last.t \in DOMAIN created
    /\ last.val = Instance(created[last.t])

\* The caller's cls_dict replaced none of the members hs of sentinel i's class.
NotOverridden(i, hs) ==
    \A h \in hs : GetAttr(TypeOf(i, instances), h, types).impl # "caller"

\* A container that is, or holds at some depth, a list or a dict.
RECURSIVE Mutable(_)
Mutable(x) ==
    \/ x.kind \in {"list", "dict"}
    \/ x.kind = "tuple" /\ \E k \in DOMAIN x.items : Mutable(x.items[k])

\* v is a deep copy of x that kept every sentinel: the same shape, the same
\* sentinels, a new object for each container that is or holds a list or a
\* dict, and the container itself for a tuple of sentinels and such tuples.
RECURSIVE CopiedRight(_, _)
CopiedRight(v, x) ==
    IF IsContainer(x)
    THEN /\ v.kind = x.kind
         /\ Len(v.items) = Len(x.items)
         /\ (v.id # x.id) <=> Mutable(x)
         /\ \A k \in DOMAIN x.items : CopiedRight(v.items[k], x.items[k])
    ELSE v = x

\* C8 as stated: the deep copy of a container holding a sentinel with the
\* injected copy hooks is a new container holding the same sentinel.
C8_CopyIdentityAsStated ==
    ( /\ last.op = "deepcopy"
      /\ IsContainer(last.arg)
      /\ \A i \in Leaves(last.arg) : NotOverridden(i, {"__copy__", "__deepcopy__"}) )
      => /\ last.err = NoError
         /\ last.val.id # last.arg.id
         /\ Leaves(last.val) = Leaves(last.arg)

\* C8: copy identity. For a sentinel S with the injected copy hooks, copy and
\* deep copy return S, and so does the deep copy of the deep copy; the deep
\* copy of a structure holding S has the same shape and holds S wherever the
\* structure did, with a new object for every list and dict and for every
\* tuple holding one, while a tuple of sentinels (and of such tuples) comes
\* back as the very same tuple. No copy allocates an instance or touches the
\* registry.
C8_CopyIdentity ==
    [][( /\ last'.op \in {"copy", "deepcopy"}
         /\ \A i \in Leaves(last'.arg) : NotOverridden(i, {"__copy__", "__deepcopy__"}) )
         => /\ last'.err = NoError
            /\ CopiedRight(last'.val, last'.arg)
            /\ LET again == deepcopy(last'.val, 7, types, instances)
               IN again.err = NoError /\ CopiedRight(again.val, last'.val)
            /\ instances' = instances
            /\ _sinstances' = _sinstances]_vars

\* C8 witness: the dict {S: (S, [S])} was deep-copied into a new dict.
C8_Witness ==
    /\ last.op = "deepcopy"
    /\ last.err = NoError
    /\ last.arg.kind = "dict"
    /\ \A i \in Leaves(last.arg) : NotOverridden(i, {"__copy__", "__deepcopy__"})
    /\ last.val.id # last.arg.id
    /\ Leaves(last.val) = Leaves(last.arg)

\* Sentinel i is bound, in a module that called create(), to the name it was
\* created with.
Bound(i) ==
    \E m \in CallerModules : globals[m][types[TypeOf(i, instances)].name] = i

\* data is the pickle of x with every sentinel saved as the global (module,
\* name) that resolves to it.
RECURSIVE PickledRight(_, _)
PickledRight(data, x) ==
    IF IsContainer(x)
    THEN /\ data.kind = x.kind
         /\ Len(data.items) = Len(x.items)
         /\ \A k \in DOMAIN x.items : PickledRight(data.items[k], x.items[k])
    ELSE /\ data.kind = "global"
         /\ data.module \in CallerModules
         /\ data.name = types[TypeOf(x.id, instances)].name
         /\ globals[data.module][data.name] = x.id

\* v is x unpickled: new containers of the same shape, holding the same sentinels.
RECURSIVE LoadedRight(_, _)
LoadedRight(v, x) ==
    IF IsContainer(x)
    THEN /\ v.kind = x.kind
         /\ Len(v.items) = Len(x.items)
         /\ v.id # x.id
         /\ \A k \in DOMAIN x.items : LoadedRight(v.items[k], x.items[k])
    ELSE v = x

\* C9 as stated: pickling any sentinel bound to its name in the caller's
\* module saves the reference (module, name).
C9_RoundTripAsStated ==
    (last.op = "dumps" /\ \A i \in Leaves(last.arg) : Bound(i))
      => last.err = NoError /\ PickledRight(last.val, last.arg)

\* C9: serialization round trip. A class built with the injected __module__
\* and __reduce__ records the module of create()'s immediate caller and the
\* given name; pickling a sentinel of such a class that is bound to that name
\* in that module, alone or inside a structure, saves the global (module,
\* name), and unpickling the result yields the same sentinel (inside new
\* containers) without allocating an instance.
C9_RoundTrip ==
    [][/\ \A t \in DOMAIN types' :
             /\ types'[t].dict["__module__"].impl # "caller"
                  => types'[t].dict["__module__"].value \in CallerModules
             /\ types'[t].dict["__reduce__"].impl # "caller"
                  => types'[t].dict["__reduce__"] = Member("const", types'[t].name)
       /\ ( /\ last'.op \in {"dumps", "loads"}
            /\ \A i \in Leaves(last'.arg) :
                  Bound(i) /\ NotOverridden(i, {"__module__", "__reduce__"}) )
            => /\ last'.err = NoError
               /\ last'.op = "dumps" => PickledRight(last'.val, last'.arg)
               /\ last'.op = "loads" => LoadedRight(last'.val, last'.arg)
               /\ instances' = instances
               /\ _sinstances' = _sinstances]_vars

\* C9 witness: the dict {S: (S, [S])} of a bound sentinel S with the injected
\* hooks was pickled and unpickled, and S came back.
C9_Witness ==
    /\ last.op = "loads"
    /\ last.err = NoError
    /\ last.arg.kind = "dict"
    /\ \A i \in Leaves(last.arg) : NotOverridden(i, {"__module__", "__reduce__"})
    /\ LoadedRight(last.val, last.arg)

\* C11: independent sentinels. Every successful create() builds a new type
\* and a new instance and adds exactly one registry entry, the new type's,
\* leaving every other type and entry as it was, also when the name, the
\* capability list and cls_dict are those of an earlier create(); and a call,
\* a lookup or a raw allocation of one type changes neither the registry
\* entry nor the __new__ of any other type.
C11_IndependentSentinels ==
    [][/\ (last'.op = "create" /\ last'.err = NoError)
            => /\ last'.t = Len(types) + 1
               /\ Len(types') = Len(types) + 1
               /\ \A u \in DOMAIN types : types'[u] = types[u]
               /\ last'.t \notin DOMAIN _sinstances
               /\ DOMAIN _sinstances' = DOMAIN _sinstances \cup {last'.t}
               /\ \A u \in DOMAIN _sinstances : _sinstances'[u] = _sinstances[u]
               /\ last'.val.id \notin DOMAIN instances
               /\ _sinstances'[last'.t] = last'.val.id
       /\ last'.op \in {"call", "instance", "new"}
            => \A u \in DOMAIN types \ {last'.t} :
                  /\ types'[u] = types[u]
                  /\ (u \in DOMAIN _sinstances') = (u \in DOMAIN _sinstances)
                  /\ u \in DOMAIN _sinstances => _sinstances'[u] = _sinstances[u]]_vars

\* C11 witness: two create() calls with the same name, capability list and
\* cls_dict returned two types with two instances.
C11_Witness ==
    /\ last.op = "create"
    /\ last.err = NoError
    /\ DOMAIN created = {1, 2}
    /\ types[1] = types[2]
    /\ created[1] # created[2]
    /\ _sinstances[1] # _sinstances[2]

\* C18: zero capabilities. create() given the empty capability sequence and
\* no constructor argument is accepted and returns a sentinel, as it does
\* when the capabilities are omitted.
C18_ZeroCapabilities ==
    (last.op = "create" /\ last.mro = << >> /\ last.args = << >>)
      => last.err = NoError /\ last.t \in DOMAIN created

\* C19: failed first construction. When the composed constructor raises
\* during the construction create() starts at line 134, create() raises that
\* exception and returns nothing, the registry, the instances and the created
\* sentinels are what they were, the class it built has not been given
\* _sentinel_failing_new, and every other class is unchanged; every registry
\* entry is an instance of its type whose construction completed.
C19_FailedConstruction ==
    [][/\ (last'.op = "create" /\ last'.ctor /\ last'.err # NoError)
            => /\ last'.val = None
               /\ _sinstances' = _sinstances
               /\ instances' = instances
               /\ created' = created
               /\ last'.t = Len(types) + 1
               /\ Len(types') = Len(types) + 1
               /\ \A u \in DOMAIN types : types'[u] = types[u]
               /\ \/ "__new__" \notin DOMAIN types'[last'.t].dict
                  \/ types'[last'.t].dict["__new__"] # _sentinel_failing_new
       /\ \A t \in DOMAIN _sinstances' :
             /\ _sinstances'[t] \in DOMAIN instances'
             /\ instances'[_sinstances'[t]].type = t]_vars

\* C19 witness: with a sentinel already registered, a create() whose
\* constructor refused the argument raised and registered nothing.
C19_Witness ==
    /\ last.op = "create"
    /\ last.ctor
    /\ last.err = TakesNoArguments
    /\ DOMAIN created # {}
    /\ last.t \in DOMAIN types
    /\ last.t \notin DOMAIN _sinstances

\* Thread th is inside create(), between the class statement and the return.
InCreate(th) == threads[th].caller = "create"

\* C16: order of steps in create(). In every create() that builds its class,
\* run by any thread while other threads create and call sentinels: when the
\* constructor is about to run (line 125) the class exists, has no instance
\* and no registry entry; after it (line 126) the class has exactly one
\* instance, constructed with the caller's arguments, and still no entry;
\* after the store (line 128, back at line 134) the entry is that instance
\* and __new__ is not yet _sentinel_failing_new; when create() returns,
\* __new__ is _sentinel_failing_new and the value returned is that instance.
\* A type create() returned has exactly one instance ever constructed: no
\* thread is at line 125 or 126 for it.
C16_OrderOfSteps ==
    /\ \A th \in Threads :
          LET me == threads[th] IN
          InCreate(th) =>
            /\ me.t \in DOMAIN types
            /\ me.t \notin DOMAIN created
            /\ types[me.t].dict = _cls_dict(types[me.t].name, <<"app">>,
                                            types[me.t].bases, ClsDict({}))
            /\ me.pc \in {"L122", "L125"}
                  => InstancesOf(me.t) = {} /\ me.t \notin DOMAIN _sinstances
            /\ me.pc = "L126"
                  => /\ InstancesOf(me.t) = {me.inst}
                     /\ instances[me.inst].args = me.args
                     /\ me.t \notin DOMAIN _sinstances
            /\ me.pc \in {"L128", "L135"}
                  => /\ InstancesOf(me.t) = {me.inst}
                     /\ instances[me.inst].args = me.args
                     /\ me.t \in DOMAIN _sinstances
                     /\ _sinstances[me.t] = me.inst
                     /\ me.ctor
    /\ (last.op = "create" /\ last.err = NoError)
          => /\ last.t \in DOMAIN created
             /\ last.val = Instance(created[last.t])
             /\ last.ctor
             /\ instances[created[last.t]].args = last.args
    /\ \A t \in DOMAIN created :
          /\ InstancesOf(t) = {created[t]}
          /\ _sinstances[t] = created[t]
          /\ types[t].dict["__new__"] = _sentinel_failing_new
          /\ \A th \in Threads : threads[th].t = t => threads[th].pc \notin {"L125", "L126"}

\* C16 witness: a create() given (int, object) and the argument 7 is between
\* its store and the disabling of __new__, while the other thread is inside a
\* call of a sentinel type created earlier.
C16_Witness ==
    \E th, other \in Threads :
        /\ InCreate(th)
        /\ threads[th].pc = "L135"
        /\ threads[th].args = <<7>>
        /\ _sinstances[threads[th].t] = threads[th].inst
        /\ threads[other].caller = "app"
        /\ threads[other].pc = "L128"

\* C17: registry monotonicity. The registry is empty at startup; an entry
\* that appears is for a type with no entry before, and is the one instance
\* of that type, just constructed; an entry, once there, stays and keeps its
\* instance in every later state.
C17_RegistryMonotonic ==
    /\ _sinstances = << >>
    /\ [][/\ \A t \in DOMAIN _sinstances :
                t \in DOMAIN _sinstances' /\ _sinstances'[t] = _sinstances[t]
          /\ \A t \in DOMAIN _sinstances' \ DOMAIN _sinstances :
                /\ _sinstances'[t] \in DOMAIN instances'
                /\ {i \in DOMAIN instances' : instances'[i].type = t} = {_sinstances'[t]}]_vars

\* C17 witness: with two entries in the registry, a call of the first type
\* returned its entry, which is still the instance create() returned.
C17_Witness ==
    /\ DOMAIN _sinstances = {1, 2}
    /\ last.op = "call"
    /\ last.t = 1
    /\ last.val = Instance(_sinstances[1])
    /\ created[1] = _sinstances[1]

\* The members create() injects that copy, pickle and repr use, and what
\* create() defines each of them as for a sentinel named name.
Hooks == {"__repr__", "__reduce__", "__copy__", "__deepcopy__"}
InjectedDefault(h, name) ==
    IF h \in {"__repr__", "__reduce__"} THEN Member("const", name) ELSE Member("self", "")

\* C12: extra members. In the class create() builds, each of __repr__,
\* __copy__, __deepcopy__ and __reduce__ is the caller's entry when cls_dict
\* has one and the injected default otherwise; and whatever cls_dict holds,
\* an entry for __new__ included, after create() returned the class's __new__
\* is _sentinel_failing_new, a call of the type returns the cached instance
\* without constructing, and the raw allocation raises the allocation
\* TypeError.
C12_ExtraMembers ==
    [][/\ (last'.op = "create" /\ last'.t # 0)
            => \A h \in Hooks :
                  types'[last'.t].dict[h] =
                      IF h \in last'.arg.keys THEN CallerMember
                      ELSE InjectedDefault(h, last'.arg.name)
       /\ (last'.op = "create" /\ last'.err = NoError)
            => types'[last'.t].dict["__new__"] = _sentinel_failing_new
       /\ (last'.op = "call" /\ last'.t \in DOMAIN created)
            => /\ last'.err = NoError
               /\ last'.val = Instance(created[last'.t])
               /\ ~last'.ctor
               /\ instances' = instances
       /\ (last'.op = "new" /\ last'.t \in DOMAIN created)
            => /\ last'.err = AllocationError
               /\ instances' = instances]_vars

\* C12 witness: a sentinel was created with a cls_dict holding __repr__,
\* __copy__ and __new__; its class has the caller's __repr__ and the injected
\* __reduce__, and its raw allocation raised.
C12_Witness ==
    /\ last.op = "new"
    /\ last.err = AllocationError
    /\ last.t \in DOMAIN created
    /\ types[last.t].dict["__repr__"] = CallerMember
    /\ types[last.t].dict["__copy__"] = CallerMember
    /\ types[last.t].dict["__reduce__"] = Member("const", "A")
    /\ types[last.t].dict["__deepcopy__"] = Member("self", "")

\* The positions of the capabilities in mro that define member m.
Definers(m, mro) ==
    {k \in DOMAIN mro : mro[k].kind # "sentinel" /\ m \in DOMAIN CapabilityDict(mro[k])}
\* The definition of m by the first capability in mro that defines it.
FirstDefinition(m, mro) ==
    LET k == CHOOSE k \in Definers(m, mro) : \A j \in Definers(m, mro) : k <= j
    IN CapabilityDict(mro[k])[m]
\* The members create() defines in the class itself.
DefinedByCreate ==
    {"__module__", "__repr__", "__reduce__", "__copy__", "__deepcopy__", "__slots__",
     "__new__"}
\* cls_dict did not supply member m of type t.
NotSupplied(t, m) == m \notin DOMAIN types[t].dict \/ types[t].dict[m].impl # "caller"

\* C13 as stated: a member that capabilities define and cls_dict does not
\* resolves, on the sentinel, to the definition of the first capability in
\* the list that defines it.
C13_CompositionOrderAsStated ==
    ( /\ last.op = "getattr"
      /\ Definers(last.args[1], types[last.t].bases) # {}
      /\ NotSupplied(last.t, last.args[1]) )
      => last.val = MemberValue(FirstDefinition(last.args[1], types[last.t].bases))

\* C13: composition order. A member that capabilities define, that cls_dict
\* does not supply and that create() does not define itself (__module__,
\* __repr__, __reduce__, __copy__, __deepcopy__, __slots__, and __new__ once
\* disabled) resolves, on the sentinel, to the definition of the first
\* capability in the list, in the order given, that defines it; so for [A, B]
\* both defining m to A's, and for a member of one capability to that one's.
C13_CompositionOrder ==
    ( /\ last.op = "getattr"
      /\ Definers(last.args[1], types[last.t].bases) # {}
      /\ NotSupplied(last.t, last.args[1])
      /\ last.args[1] \notin DefinedByCreate )
      => last.val = MemberValue(FirstDefinition(last.args[1], types[last.t].bases))

\* C13 witness: on a sentinel created with (B, A, object), m resolved to B's.
C13_Witness ==
    /\ last.op = "getattr"
    /\ last.args = <<"m">>
    /\ types[last.t].bases = <<CapB, CapA, object>>
    /\ NotSupplied(last.t, "m")
    /\ last.val = MemberValue(Member("B", "m"))

\* C14: display. For a sentinel whose cls_dict supplied neither __repr__ nor
\* __str__, repr and str both yield the name given to create().
C14_Display ==
    ( /\ last.op \in {"repr", "str"}
      /\ last.t \in DOMAIN created
      /\ NotSupplied(last.t, "__repr__")
      /\ NotSupplied(last.t, "__str__") )
      => last.val = Text(types[last.t].name)

\* C15: name inference failure. A create() called without a name while
\* varname cannot be imported raises ImportError, builds no class, constructs
\* nothing and leaves the registry, the instances and the created sentinels
\* as they were.
C15_NameInferenceFailure ==
    [][(last'.op = "create" /\ last'.arg.name = NoName /\ ~last'.arg.varname)
         => /\ last'.err = ImportError
            /\ last'.t = 0
            /\ last'.val = None
            /\ types' = types
            /\ _sinstances' = _sinstances
            /\ instances' = instances
            /\ created' = created]_vars

\* C15 witness: with a sentinel already created, a create() without a name
\* raised ImportError.
C15_Witness ==
    /\ last.op = "create"
    /\ last.arg.name = NoName
    /\ ~last.arg.varname
    /\ last.err = ImportError
    /\ DOMAIN created # {}

====
